---- MODULE Spec2Model ----
(***************************************************************************)
(* Model of the configuration resolver (src/src/config_manager.py), of    *)
(* the session wrapper (src/src/browser_automation.py), of the cookie     *)
(* dialog of the page objects (src/src/pages/google_pages.py) and of the  *)
(* test fixtures (src/tests/conftest.py).                                 *)
(*                                                                         *)
(* Strings are sequences of one-character strings, so that str.upper(),   *)
(* substring tests and integer formatting are computed, not assumed.      *)
(* Python values and JSON texts are records with the same five fields:    *)
(*   t  the type tag            s  the characters of a str / JSON token   *)
(*   n  the value of an int     m  the items of a dict / JSON object      *)
(*   l  the items of a list / JSON array                                  *)
(***************************************************************************)
EXTENDS Integers, Sequences, FiniteSets, TLC

VARIABLES
    osenv,        \* os.environ: a function from the names of the set variables to their values
    file,         \* the settings file at config_file: [exists, writable, content]
    constructed,  \* TRUE once ConfigManager.__init__ has returned
    config,       \* self.config
    environment,  \* self.environment
    last,         \* the step taken last: [op, arg, default]
    result,       \* the value the caller received from the latest get that returned
    raised,       \* the exception the latest resolver operation propagated, or NoException
    changes       \* how many changes the outside world has made to os.environ and the file

vars == <<osenv, file, constructed, config, environment, last, result, raised, changes>>

VARIABLES
    drivers,      \* the driver handles created so far, in order: [live, quits, owned, ...]
    wrapper,      \* the BrowserAutomation object the caller holds: [exists, browser_type, driver]
    wcall,        \* the call made last on the wrapper or a page object, and its outcome
    run           \* the test run: the command line, the test under way, its phase and reports

bvars == <<drivers, wrapper, wcall, run>>

allvars == <<vars, bvars>>

----------------------------------------------------------------------------
(* Bounds *)

\* the number of changes the outside world makes to os.environ and the file
MaxChanges == 1

----------------------------------------------------------------------------
(* Strings *)

s_empty == <<>>
s_default == <<"d","e","f","a","u","l","t">>
s_dev == <<"d","e","v">>
s_prod == <<"p","r","o","d">>
s_timeout == <<"t","i","m","e","o","u","t">>
s_Timeout == <<"T","i","m","e","o","u","t">>
s_base_url == <<"b","a","s","e","_","u","r","l">>
s_screenshot_on_failure ==
    <<"s","c","r","e","e","n","s","h","o","t","_","o","n","_","f","a","i","l","u","r","e">>
s_headless == <<"h","e","a","d","l","e","s","s">>
s_browser == <<"b","r","o","w","s","e","r">>
s_chrome == <<"c","h","r","o","m","e">>
s_google == <<"h","t","t","p","s",":","/","/","w","w","w",".",
              "g","o","o","g","l","e",".","c","o","m">>
s_example == <<"h","t","t","p","s",":","/","/","d","e","v",".",
               "e","x","a","m","p","l","e",".","c","o","m">>
s_5 == <<"5">>
s_true == <<"t","r","u","e">>
s_false == <<"f","a","l","s","e">>
s_null == <<"n","u","l","l">>
s_TEST_ == <<"T","E","S","T","_">>
s_TEST_ENV == <<"T","E","S","T","_","E","N","V">>

LowerCase == <<"a","b","c","d","e","f","g","h","i","j","k","l","m",
               "n","o","p","q","r","s","t","u","v","w","x","y","z">>
UpperCase == <<"A","B","C","D","E","F","G","H","I","J","K","L","M",
               "N","O","P","Q","R","S","T","U","V","W","X","Y","Z">>

\* one character of str.upper(): a lower-case letter maps to its capital, anything else to itself
UpperChar(c) ==
    IF \E i \in 1..Len(LowerCase) : LowerCase[i] = c
    THEN UpperCase[CHOOSE i \in 1..Len(LowerCase) : LowerCase[i] = c]
    ELSE c

\* str.upper()
upper(s) == [i \in 1..Len(s) |-> UpperChar(s[i])]

\* x in s, for two strs: x occurs in s as a substring
IsSubstring(x, s) ==
    \E i \in 0..(Len(s) - Len(x)) : SubSeq(s, i + 1, i + Len(x)) = x

Digits == <<"0","1","2","3","4","5","6","7","8","9">>

DigitValue(c) == (CHOOSE i \in 1..10 : Digits[i] = c) - 1

\* the decimal digits of a natural number, as json.dump writes an int
RECURSIVE IntToDigits(_)
IntToDigits(n) ==
    IF n < 10 THEN <<Digits[n + 1]>>
    ELSE Append(IntToDigits(n \div 10), Digits[(n % 10) + 1])

\* the natural number a JSON number token denotes, as json.load reads it
RECURSIVE DigitsToInt(_)
DigitsToInt(s) ==
    IF Len(s) = 1 THEN DigitValue(s[1])
    ELSE 10 * DigitsToInt(SubSeq(s, 1, Len(s) - 1)) + DigitValue(s[Len(s)])

----------------------------------------------------------------------------
(* Python values, JSON texts, exceptions *)

NoItems == [k \in {} |-> k]

Value(t, s, n, m, l) == [t |-> t, s |-> s, n |-> n, m |-> m, l |-> l]

PyStr(s) == Value("str", s, 0, NoItems, <<>>)
PyInt(n) == Value("int", <<>>, n, NoItems, <<>>)
PyBool(b) == Value("bool", <<>>, IF b THEN 1 ELSE 0, NoItems, <<>>)
PyNone == Value("NoneType", <<>>, 0, NoItems, <<>>)
PyDict(m) == Value("dict", <<>>, 0, m, <<>>)
PyList(l) == Value("list", <<>>, 0, NoItems, l)

JString(s) == Value("string", s, 0, NoItems, <<>>)
JNumber(s) == Value("number", s, 0, NoItems, <<>>)
JLiteral(s) == Value("literal", s, 0, NoItems, <<>>)
JObject(m) == Value("object", <<>>, 0, m, <<>>)
JArray(l) == Value("array", <<>>, 0, NoItems, l)

\* file contents that are no JSON text
Undecodable == Value("undecodable", <<>>, 0, NoItems, <<>>)  \* bytes that are no text in the locale's encoding
Malformed == Value("malformed", <<>>, 0, NoItems, <<>>)      \* text that is no JSON document

Exception(name) == Value(name, <<>>, 0, NoItems, <<>>)
ExceptionNames == {"TypeError", "KeyError", "JSONDecodeError", "UnicodeDecodeError", "OSError"}
IsException(v) == v.t \in ExceptionNames
NoException == "none"

\* a call of get(key) that passes no second argument
NotSupplied == Value("not supplied", <<>>, 0, NoItems, <<>>)

----------------------------------------------------------------------------
(* json.load and json.dump *)

\* json.dump(v, f): the JSON text of a Python value
RECURSIVE json_dump(_)
json_dump(v) ==
    CASE v.t = "dict" -> JObject([k \in DOMAIN v.m |-> json_dump(v.m[k])])
      [] v.t = "list" -> JArray([i \in 1..Len(v.l) |-> json_dump(v.l[i])])
      [] v.t = "str" -> JString(v.s)
      [] v.t = "bool" -> JLiteral(IF v.n = 1 THEN s_true ELSE s_false)
      [] v.t = "int" -> JNumber(IntToDigits(v.n))
      [] v.t = "NoneType" -> JLiteral(s_null)

\* the Python value of a JSON text
RECURSIVE json_value(_)
json_value(j) ==
    CASE j.t = "object" -> PyDict([k \in DOMAIN j.m |-> json_value(j.m[k])])
      [] j.t = "array" -> PyList([i \in 1..Len(j.l) |-> json_value(j.l[i])])
      [] j.t = "string" -> PyStr(j.s)
      [] j.t = "number" -> PyInt(DigitsToInt(j.s))
      [] j.t = "literal" ->
            IF j.s = s_true THEN PyBool(TRUE)
            ELSE IF j.s = s_false THEN PyBool(FALSE)
            ELSE PyNone

\* with open(config_file, "r") as f: json.load(f)
\* reading bytes that are no text raises UnicodeDecodeError, text that is no JSON raises
\* JSONDecodeError
json_load(content) ==
    CASE content.t = "undecodable" -> Exception("UnicodeDecodeError")
      [] content.t = "malformed" -> Exception("JSONDecodeError")
      [] OTHER -> json_value(content)

----------------------------------------------------------------------------
(* Python's  x in c  and  c[x]  for a str x *)

\* x in c
contains(x, c) ==
    CASE c.t = "dict" -> PyBool(x \in DOMAIN c.m)
      [] c.t = "list" -> PyBool(\E i \in 1..Len(c.l) : c.l[i] = PyStr(x))
      [] c.t = "str" -> PyBool(IsSubstring(x, c.s))
      [] OTHER -> Exception("TypeError")    \* argument of type 'int' is not iterable

\* c[x]
getitem(c, x) ==
    CASE c.t = "dict" -> IF x \in DOMAIN c.m THEN c.m[x] ELSE Exception("KeyError")
      [] OTHER -> Exception("TypeError")    \* indices must be integers / not subscriptable

----------------------------------------------------------------------------
(* ConfigManager *)

default_config ==
    PyDict(s_default :> PyDict(
           (s_base_url :> PyStr(s_google))
        @@ (s_timeout :> PyInt(10))
        @@ (s_screenshot_on_failure :> PyBool(TRUE))
        @@ (s_headless :> PyBool(FALSE))
        @@ (s_browser :> PyStr(s_chrome))))

AbsentFile(writable) == [exists |-> FALSE, writable |-> writable, content |-> Malformed]
PresentFile(content) == [exists |-> TRUE, writable |-> TRUE, content |-> content]

\* as _create_default_config, but the file is opened for writing and nothing is dumped
_create_default_config_truncating(f, cfg) ==
    IF f.writable THEN PresentFile(Malformed) ELSE f

\* the file after _create_default_config(cfg): a failed open or write is printed, not raised
_create_default_config(f, cfg) ==
    IF f.writable THEN PresentFile(json_dump(cfg)) ELSE f

\* the value _load_config returns, or the exception it propagates
_load_config(f) ==
    IF f.exists
    THEN LET r == json_load(f.content)
         IN  IF r.t = "JSONDecodeError" THEN default_config ELSE r
    ELSE default_config

\* the file after _load_config
_load_config_file(f) ==
    IF f.exists THEN f ELSE _create_default_config(f, default_config)

\* as environ_get, but written  os.environ.get(name) or dflt : an empty value counts as unset
environ_get_or(env, name, dflt) ==
    IF name \in DOMAIN env /\ env[name] # <<>> THEN env[name] ELSE dflt

\* os.environ.get("TEST_ENV", "default")
environ_get(env, name, dflt) == IF name \in DOMAIN env THEN env[name] ELSE dflt

\* one tier of get:  name in cfg and key in cfg[name]  and then  cfg[name][key];
\* Miss when the condition is False
Miss == Value("miss", <<>>, 0, NoItems, <<>>)

\* as tier, but indexing without the membership tests
tier_unchecked(cfg, name, key) ==
    LET section == getitem(cfg, name)
    IN  IF IsException(section) THEN section ELSE getitem(section, key)

tier(cfg, name, key) ==
    LET a == contains(name, cfg)
    IN  IF IsException(a) THEN a
        ELSE IF a = PyBool(FALSE) THEN Miss
        ELSE LET section == getitem(cfg, name)
             IN  IF IsException(section) THEN section
                 ELSE LET b == contains(key, section)
                      IN  IF IsException(b) THEN b
                          ELSE IF b = PyBool(FALSE) THEN Miss
                          ELSE getitem(section, key)

\* as get, but the document is consulted before os.environ
get_document_first(env, cfg, active, key, default) ==
    LET env_var == s_TEST_ \o upper(key)
        r2 == tier(cfg, active, key)
        r3 == tier(cfg, s_default, key)
    IN  IF r2 # Miss THEN r2
        ELSE IF r3 # Miss THEN r3
        ELSE IF env_var \in DOMAIN env THEN PyStr(env[env_var])
        ELSE IF default = NotSupplied THEN PyNone ELSE default

\* as get, but the default section is consulted before the active one
get_default_first(env, cfg, active, key, default) ==
    LET env_var == s_TEST_ \o upper(key)
        r2 == tier(cfg, active, key)
        r3 == tier(cfg, s_default, key)
    IN  IF env_var \in DOMAIN env THEN PyStr(env[env_var])
        ELSE IF r3 # Miss THEN r3
        ELSE IF r2 # Miss THEN r2
        ELSE IF default = NotSupplied THEN PyNone ELSE default

\* as get, but without the default-section tier
get_without_default_section(env, cfg, active, key, default) ==
    LET env_var == s_TEST_ \o upper(key)
        r2 == tier(cfg, active, key)
    IN  IF env_var \in DOMAIN env THEN PyStr(env[env_var])
        ELSE IF r2 # Miss THEN r2
        ELSE IF default = NotSupplied THEN PyNone ELSE default

\* what get(key, default) returns or raises
get(env, cfg, active, key, default) ==
    LET env_var == s_TEST_ \o upper(key)
    IN  IF env_var \in DOMAIN env THEN PyStr(env[env_var])
        ELSE LET r2 == tier(cfg, active, key)
             IN  IF r2 # Miss THEN r2
                 ELSE LET r3 == tier(cfg, s_default, key)
                      IN  IF r3 # Miss THEN r3
                          ELSE IF default = NotSupplied THEN PyNone ELSE default

----------------------------------------------------------------------------
(* Inputs *)

\* {"default": {"timeout": 10, "base_url": "https://www.google.com"},
\*  "dev": {"timeout": 15, "Timeout": true}}
J_envs ==
    JObject((s_default :> JObject((s_timeout :> JNumber(<<"1","0">>))
                               @@ (s_base_url :> JString(s_google))))
         @@ (s_dev :> JObject((s_timeout :> JNumber(<<"1","5">>))
                           @@ (s_Timeout :> JLiteral(s_true)))))
\* {"default": {"timeout": 10}, "dev": {}}
J_scenario ==
    JObject((s_default :> JObject(s_timeout :> JNumber(<<"1","0">>)))
         @@ (s_dev :> JObject(NoItems)))
\* {"dev": {"base_url": "https://dev.example.com"}}
J_no_default == JObject(s_dev :> JObject(s_base_url :> JString(s_example)))
\* 5
J_number == JNumber(s_5)
\* ["default"]
J_array == JArray(<<JString(s_default)>>)
\* "dev"
J_string == JString(s_dev)
\* {"dev": 5, "default": {"timeout": 10}}
J_section_number ==
    JObject((s_dev :> JNumber(s_5))
         @@ (s_default :> JObject(s_timeout :> JNumber(<<"1","0">>))))

JsonTexts ==
    {J_envs, J_scenario, J_no_default, J_number, J_array, J_string, J_section_number}

FileContents == JsonTexts \cup {Malformed, Undecodable}

Files == {AbsentFile(TRUE), AbsentFile(FALSE)} \cup {PresentFile(c) : c \in FileContents}

\* what the outside world makes of the file once the program runs: it writes the example
\* document or removes the file
FilesWritten == {PresentFile(J_envs), AbsentFile(TRUE)}

Keys == {s_timeout, s_Timeout, s_base_url}
Defaults == {NotSupplied, PyInt(99)}
EnvironmentNames == {s_default, s_dev, s_prod}

EnvVarNames == {s_TEST_ENV} \cup {s_TEST_ \o upper(k) : k \in Keys}
\* the values the outside world gives a variable: the empty string, the name of a section,
\* a number's digits
EnvValues(name) ==
    IF name = s_TEST_ENV THEN {s_empty, s_dev}
    ELSE IF name = s_TEST_ \o upper(s_timeout) THEN {s_empty, s_5}
    ELSE {s_5}
Environs ==
    UNION {{e \in [S -> {s_empty, s_dev, s_5}] : \A name \in S : e[name] \in EnvValues(name)} :
           S \in SUBSET EnvVarNames}

Step(op, arg, default) == [op |-> op, arg |-> arg, default |-> default]

----------------------------------------------------------------------------
(* The session wrapper and the test run before anything has used them *)

\* no BrowserAutomation object: self.driver is held by nobody
NoWrapper == [exists |-> FALSE, browser_type |-> <<>>, driver |-> 0]

WrapperCall(op, arg, headless, timeout, delay, exc, returned) ==
    [op |-> op, arg |-> arg, headless |-> headless, timeout |-> timeout, delay |-> delay,
     raised |-> exc, returned |-> returned]

NoCall == WrapperCall("none", <<>>, FALSE, 0, 0, NoException, "nothing")

\* the reports of the three phases of a test: "none", "passed" or "failed"
NoReports == [setup |-> "none", call |-> "none", teardown |-> "none"]

\* a test run given --browser and --headless, before its first test
TestRun(browser_option, headless_option) ==
    [browser_option |-> browser_option, headless_option |-> headless_option,
     test |-> 0, uses_browser |-> FALSE, phase |-> "idle",
     funcargs_browser |-> FALSE, browser_type |-> <<>>, headless |-> FALSE,
     outcome |-> NoReports, report |-> NoReports,
     screenshot |-> "none", hook_raised |-> NoException]

BrowserUnused ==
    /\ drivers = <<>>
    /\ wrapper = NoWrapper
    /\ wcall = NoCall
    /\ run = TestRun(s_chrome, FALSE)

----------------------------------------------------------------------------
(* The state machine *)

Init ==
    /\ osenv \in Environs
    /\ file \in Files
    /\ constructed = FALSE
    /\ config = PyNone
    /\ environment = s_empty
    /\ last = Step("start", s_empty, NotSupplied)
    /\ result = PyNone
    /\ raised = NoException
    /\ changes = 0
    /\ BrowserUnused

\* ConfigManager(config_file)
__init__ ==
    /\ ~constructed
    /\ LET loaded == _load_config(file)
       IN  /\ file' = _load_config_file(file)
           /\ IF IsException(loaded)
              THEN /\ raised' = loaded.t
                   /\ UNCHANGED <<constructed, config, environment>>
              ELSE /\ raised' = NoException
                   /\ constructed' = TRUE
                   /\ config' = loaded
                   /\ environment' = environ_get(osenv, s_TEST_ENV, s_default)
    /\ last' = Step("__init__", s_empty, NotSupplied)
    /\ UNCHANGED <<osenv, result, changes>>
    /\ UNCHANGED bvars

\* as Get, but the settings file is read again on every call
Get_reloading(key, default) ==
    /\ constructed
    /\ LET loaded == _load_config(file)
           cfg == IF IsException(loaded) THEN config ELSE loaded
           r == get(osenv, cfg, environment, key, default)
       IN  /\ config' = cfg
           /\ IF IsException(r)
              THEN raised' = r.t /\ UNCHANGED result
              ELSE raised' = NoException /\ result' = r
    /\ last' = Step("get", key, default)
    /\ UNCHANGED <<osenv, file, constructed, environment, changes>>
    /\ UNCHANGED bvars

\* config.get(key) and config.get(key, default)
Get(key, default) ==
    /\ constructed
    /\ LET r == get(osenv, config, environment, key, default)
       IN  IF IsException(r)
           THEN raised' = r.t /\ UNCHANGED result
           ELSE raised' = NoException /\ result' = r
    /\ last' = Step("get", key, default)
    /\ UNCHANGED <<osenv, file, constructed, config, environment, changes>>
    /\ UNCHANGED bvars

\* as set_environment, but a name without a section in the document is ignored
set_environment_validating(name) ==
    /\ constructed
    /\ environment' = IF contains(name, config) = PyBool(TRUE) THEN name ELSE environment
    /\ raised' = NoException
    /\ last' = Step("set_environment", name, NotSupplied)
    /\ UNCHANGED <<osenv, file, constructed, config, result, changes>>
    /\ UNCHANGED bvars

\* config.set_environment(name)
set_environment(name) ==
    /\ constructed
    /\ environment' = name
    /\ raised' = NoException
    /\ last' = Step("set_environment", name, NotSupplied)
    /\ UNCHANGED <<osenv, file, constructed, config, result, changes>>
    /\ UNCHANGED bvars

\* the outside world sets or unsets a variable of the process environment
ChangeEnviron ==
    /\ changes < MaxChanges
    /\ \E name \in EnvVarNames :
          \/ \E value \in EnvValues(name) :
                osenv' = [v \in DOMAIN osenv \cup {name} |->
                              IF v = name THEN value ELSE osenv[v]]
          \/ /\ name \in DOMAIN osenv
             /\ osenv' = [v \in DOMAIN osenv \ {name} |-> osenv[v]]
    /\ osenv' # osenv
    /\ changes' = changes + 1
    /\ last' = Step("environ", s_empty, NotSupplied)
    /\ UNCHANGED <<file, constructed, config, environment, result, raised>>
    /\ UNCHANGED bvars

\* the outside world writes, replaces or removes the settings file
ChangeFile ==
    /\ changes < MaxChanges
    /\ file' \in FilesWritten
    /\ file' # file
    /\ changes' = changes + 1
    /\ last' = Step("file", s_empty, NotSupplied)
    /\ UNCHANGED <<osenv, constructed, config, environment, result, raised>>
    /\ UNCHANGED bvars

Next ==
    \/ __init__
    \/ \E key \in Keys, default \in Defaults : Get(key, default)
    \/ \E name \in EnvironmentNames : set_environment(name)
    \/ ChangeEnviron
    \/ ChangeFile

Spec == Init /\ [][Next]_allvars

----------------------------------------------------------------------------
(* What the claims speak of *)

s_TEST_TIMEOUT == <<"T","E","S","T","_","T","I","M","E","O","U","T">>
s_TEST_BASE_URL == <<"T","E","S","T","_","B","A","S","E","_","U","R","L">>

\* the variable named "TEST_" + uppercase(key)
TierOneVariable(key) ==
    IF key \in {s_timeout, s_Timeout} THEN s_TEST_TIMEOUT ELSE s_TEST_BASE_URL

\* the document has a section of this name, a mapping of settings
HasSection(cfg, name) ==
    cfg.t = "dict" /\ name \in DOMAIN cfg.m /\ cfg.m[name].t = "dict"

\* the section of this name holds the key
SectionHolds(cfg, name, key) ==
    HasSection(cfg, name) /\ key \in DOMAIN cfg.m[name].m

\* the document is a mapping and the name either names no section or names one that
\* lacks the key
SectionLacks(cfg, name, key) ==
    /\ cfg.t = "dict"
    /\ \/ name \notin DOMAIN cfg.m
       \/ HasSection(cfg, name) /\ key \notin DOMAIN cfg.m[name].m

\* the latest step was a call of get that returned a value
Returned == last.op = "get" /\ raised = NoException

\* the fallback of the latest call of get
Fallback == IF last.default = NotSupplied THEN PyNone ELSE last.default

\* C1: when TEST_<KEY> is set, to any string, get returns exactly that string as a str,
\* whatever the document (well formed or not), the active environment and the fallback are
C1_EnvVarWins ==
    (last.op = "get" /\ TierOneVariable(last.arg) \in DOMAIN osenv)
        => (Returned /\ result = PyStr(osenv[TierOneVariable(last.arg)]))

\* get("timeout", 99) returned "" from TEST_TIMEOUT="" although the active section dev
\* and the default section both hold timeout
C1_Witness ==
    /\ last = Step("get", s_timeout, PyInt(99))
    /\ s_TEST_TIMEOUT \in DOMAIN osenv /\ osenv[s_TEST_TIMEOUT] = s_empty
    /\ environment = s_dev
    /\ SectionHolds(config, s_dev, s_timeout)
    /\ SectionHolds(config, s_default, s_timeout)
    /\ result = PyStr(s_empty)

\* C2: with TEST_<KEY> unset and the key in both the active section and the default
\* section, get returns the active section's value, with its JSON type
C2_ActiveSectionWins ==
    (/\ last.op = "get"
     /\ TierOneVariable(last.arg) \notin DOMAIN osenv
     /\ SectionHolds(config, environment, last.arg)
     /\ SectionHolds(config, s_default, last.arg))
        => (Returned /\ result = config.m[environment].m[last.arg])

\* get("timeout", 99) returned dev's int 15, not default's 10 and not 99
C2_Witness ==
    /\ last = Step("get", s_timeout, PyInt(99))
    /\ s_TEST_TIMEOUT \notin DOMAIN osenv
    /\ environment = s_dev
    /\ SectionHolds(config, s_dev, s_timeout)
    /\ SectionHolds(config, s_default, s_timeout)
    /\ config.m[s_default].m[s_timeout] = PyInt(10)
    /\ result = PyInt(15)

\* C3: with TEST_<KEY> unset, the key absent from the active section (or no such section)
\* and present in the default section, get returns the default section's value
C3_DefaultSection ==
    (/\ last.op = "get"
     /\ TierOneVariable(last.arg) \notin DOMAIN osenv
     /\ SectionLacks(config, environment, last.arg)
     /\ SectionHolds(config, s_default, last.arg))
        => (Returned /\ result = config.m[s_default].m[last.arg])

\* the scenario: {"default": {"timeout": 10}, "dev": {}}, active dev, get("timeout", 99)
\* returned the int 10
C3_Witness ==
    /\ last = Step("get", s_timeout, PyInt(99))
    /\ s_TEST_TIMEOUT \notin DOMAIN osenv
    /\ environment = s_dev
    /\ HasSection(config, s_dev) /\ DOMAIN config.m[s_dev].m = {}
    /\ SectionHolds(config, s_default, s_timeout)
    /\ result = PyInt(10)

\* C4: with TEST_<KEY> unset and the key in neither the active section nor the default
\* section (either may be missing), get raises nothing and returns the fallback, None when
\* no fallback was passed
C4_Fallback ==
    (/\ last.op = "get"
     /\ TierOneVariable(last.arg) \notin DOMAIN osenv
     /\ SectionLacks(config, environment, last.arg)
     /\ SectionLacks(config, s_default, last.arg))
        => (Returned /\ result = Fallback)

\* get("timeout") returned None from a document without a default section and with an
\* active environment that names no section
C4_Witness ==
    /\ last = Step("get", s_timeout, NotSupplied)
    /\ s_TEST_TIMEOUT \notin DOMAIN osenv
    /\ config.t = "dict"
    /\ s_default \notin DOMAIN config.m
    /\ environment \notin DOMAIN config.m
    /\ result = PyNone

\* the value the tiers below os.environ give: the active section's, else the default
\* section's, else the fallback
Expected(cfg, active, key, fallback) ==
    IF SectionHolds(cfg, active, key) THEN cfg.m[active].m[key]
    ELSE IF SectionHolds(cfg, s_default, key) THEN cfg.m[s_default].m[key]
    ELSE fallback

\* the sections that a lookup of key reaches are mappings
Resolvable(cfg, active, key) ==
    \/ SectionHolds(cfg, active, key)
    \/ /\ SectionLacks(cfg, active, key)
       /\ SectionHolds(cfg, s_default, key) \/ SectionLacks(cfg, s_default, key)

\* C5: set_environment(name) takes any name, raises nothing, makes name the active
\* environment and leaves the value an earlier get returned as it was; the active
\* environment then stays name until the next set_environment, and every get resolves the
\* document tiers with the active environment of the moment of the call
C5_SetEnvironment ==
    [][/\ last'.op = "set_environment"
            => (/\ environment' = last'.arg
                /\ raised' = NoException
                /\ result' = result)
       /\ (constructed /\ last'.op # "set_environment") => environment' = environment
       /\ (/\ last'.op = "get"
           /\ TierOneVariable(last'.arg) \notin DOMAIN osenv
           /\ Resolvable(config, environment, last'.arg))
            => (/\ raised' = NoException
                /\ result' = Expected(config, environment, last'.arg,
                                      IF last'.default = NotSupplied
                                      THEN PyNone ELSE last'.default))]_vars

\* after set_environment("prod"), a name without a section, get("timeout", 99) fell
\* through to the default section's 10
C5_Witness ==
    /\ last = Step("get", s_timeout, PyInt(99))
    /\ s_TEST_TIMEOUT \notin DOMAIN osenv
    /\ environment = s_prod
    /\ config.t = "dict" /\ s_prod \notin DOMAIN config.m
    /\ SectionHolds(config, s_default, s_timeout)
    /\ result = PyInt(10)

\* C6: after constructing on a file that exists and is no JSON document, nothing was
\* raised and the resolver holds the hardcoded default document
C6_MalformedFile ==
    (last.op = "__init__" /\ file.exists /\ file.content \in {Malformed, Undecodable})
        => (raised = NoException /\ constructed /\ config = default_config)

C8_NothingRaised ==
    \/ raised = NoException
    \/ last.op = "__init__" /\ file.exists /\ file.content = Undecodable

\* C9: once constructed, the resolver stays constructed with the same in-memory document,
\* whatever is called and whatever happens to the file; get and set_environment do not
\* touch the file
C9_DocumentImmutable ==
    [][constructed
        => (/\ constructed'
            /\ config' = config
            /\ last'.op \in {"get", "set_environment"} => file' = file)]_vars

\* get("timeout") returned the in-memory default document's 10 while the file on disk,
\* replaced after construction, says dev's timeout is 15
C9_Witness ==
    /\ last = Step("get", s_timeout, NotSupplied)
    /\ s_TEST_TIMEOUT \notin DOMAIN osenv
    /\ environment = s_dev
    /\ config = default_config
    /\ file = PresentFile(J_envs)
    /\ result = PyInt(10)

\* C10: construction sets the active environment to TEST_ENV's value, "default" when it
\* is unset; afterwards only set_environment changes it, to its argument
C10_ActiveEnvironment ==
    [][/\ (~constructed /\ constructed')
            => environment' = (IF s_TEST_ENV \in DOMAIN osenv
                               THEN osenv[s_TEST_ENV] ELSE s_default)
       /\ (constructed /\ environment' # environment)
            => (last'.op = "set_environment" /\ environment' = last'.arg)]_vars

\* the active environment is still the "" that TEST_ENV held at construction, after the
\* variable was changed to "dev" and get was called
C10_Witness ==
    /\ constructed
    /\ last.op = "get"
    /\ environment = s_empty
    /\ s_TEST_ENV \in DOMAIN osenv /\ osenv[s_TEST_ENV] = s_dev

----------------------------------------------------------------------------
(* The session wrapper: BrowserAutomation (src/src/browser_automation.py) *)

s_firefox == <<"f","i","r","e","f","o","x">>
s_edge == <<"e","d","g","e">>
s_safari == <<"s","a","f","a","r","i">>
s_Chrome == <<"C","h","r","o","m","e">>
s_FIREFOX == <<"F","I","R","E","F","O","X">>
s_eDGE == <<"e","D","G","E">>
s_Safari == <<"S","a","f","a","r","i">>
s_opera == <<"o","p","e","r","a">>
s_OPERA == <<"O","P","E","R","A">>

\* one character of str.lower(): a capital maps to its lower-case letter, anything else to itself
LowerChar(c) ==
    IF \E i \in 1..Len(UpperCase) : UpperCase[i] = c
    THEN LowerCase[CHOOSE i \in 1..Len(UpperCase) : UpperCase[i] = c]
    ELSE c

\* a str.lower() that leaves the letter case alone
lower_keeping_case(s) == s

\* str.lower()
lower(s) == [i \in 1..Len(s) |-> LowerChar(s[i])]

MaxDrivers == 1
MaxQuits == 2

ImplicitWait == 5
PageLoadTimeout == 30
DefaultTimeout == 10

\* a driver handle as webdriver.Chrome(...) and its like return it: a live browser that was
\* never quit and has no timeouts set
NewDriver(headless) ==
    [live |-> TRUE, quits |-> 0, headless |-> headless,
     implicit_wait |-> 0, page_load_timeout |-> 0]

\* the steps of the constructor at which the driver library can raise
ConstructorFaults == {"none", "create", "implicitly_wait", "set_page_load_timeout"}

Constructed(self, ds, exc) == [self |-> self, drivers |-> ds, raised |-> exc]

\* BrowserAutomation(browser_type, headless) with the handles ds in existence: the object made,
\* the handles afterwards and the exception raised.  Safari gets no --headless argument.
BrowserAutomation(ds, browser_type, headless, fault) ==
    LET kind == lower(browser_type)
        handle == Len(ds) + 1
        created == Append(ds, NewDriver(headless /\ kind # s_safari))
        waiting == [created EXCEPT ![handle].implicit_wait = ImplicitWait]
        ready == [waiting EXCEPT ![handle].page_load_timeout = PageLoadTimeout]
        self == [exists |-> TRUE, browser_type |-> kind, driver |-> handle]
    IN  IF kind \notin {s_chrome, s_firefox, s_edge, s_safari}
        THEN Constructed(NoWrapper, ds, "ValueError")
        ELSE IF fault = "create"
        THEN Constructed(NoWrapper, ds, "WebDriverException")
        ELSE IF fault = "implicitly_wait"
        THEN Constructed(NoWrapper, created, "WebDriverException")
        ELSE IF fault = "set_page_load_timeout"
        THEN Constructed(NoWrapper, waiting, "WebDriverException")
        ELSE Constructed(self, ready, NoException)

\* driver.quit(): the browser is gone afterwards, whether or not the library raises
quit(ds, handle) == [ds EXCEPT ![handle].live = FALSE, ![handle].quits = @ + 1]

Closed(ds, exc) == [drivers |-> ds, raised |-> exc]

\* self.close(); fault says whether driver.quit() raises
close(ds, self, fault) ==
    IF self.driver # 0
    THEN Closed(quit(ds, self.driver), IF fault THEN "WebDriverException" ELSE NoException)
    ELSE Closed(ds, NoException)

Outcome(exc, returned) ==
    [raised |-> exc, returned |-> IF exc = NoException THEN returned ELSE "nothing"]

\* WebDriverWait(self.driver, timeout).until(condition), the condition coming true delay
\* seconds from now: the exception raised
until(ds, self, timeout, delay) ==
    IF ~ds[self.driver].live THEN "WebDriverException"
    ELSE IF delay > timeout THEN "TimeoutException"
    ELSE NoException

\* what a call on the element found can raise
ElementFaults == {NoException, "ElementClickInterceptedException", "StaleElementReferenceException"}

find_element(ds, self, timeout, delay) ==
    Outcome(until(ds, self, timeout, delay), "element")

click_element(ds, self, timeout, delay, fault) ==
    LET waited == until(ds, self, timeout, delay)
    IN  Outcome(IF waited # NoException THEN waited ELSE fault, "self")

input_text(ds, self, timeout, delay, fault) ==
    LET element == find_element(ds, self, timeout, delay)
    IN  Outcome(IF element.raised # NoException THEN element.raised ELSE fault, "self")

\* self.take_screenshot(filename); fault says whether driver.save_screenshot raises
take_screenshot(ds, self, fault) ==
    Outcome(IF ~ds[self.driver].live \/ fault THEN "WebDriverException" ELSE NoException, "self")

----------------------------------------------------------------------------
(* The cookie dialog of GoogleHomePage (src/src/pages/google_pages.py) *)

CookieTimeout == 5

\* an accept_cookies() that tolerates only the button's not turning up
accept_cookies_on_timeout(ds, browser, delay, fault) ==
    LET click == click_element(ds, browser, CookieTimeout, delay, fault)
    IN  Outcome(IF click.raised = "TimeoutException" THEN NoException ELSE click.raised, "self")

\* GoogleHomePage(browser).accept_cookies()
accept_cookies(ds, browser, delay, fault) ==
    LET click == click_element(ds, browser, CookieTimeout, delay, fault)
    IN  Outcome(NoException, "self")

----------------------------------------------------------------------------
(* A program that uses the wrapper and the page object directly *)

BrowserKinds == {s_chrome, s_Chrome, s_firefox, s_FIREFOX, s_edge, s_eDGE, s_safari, s_Safari,
                 s_opera, s_OPERA, s_empty}
Timeouts == {CookieTimeout, DefaultTimeout}
\* seconds until the element looked for turns up
Delays == {3, 7, 12}

ResolverUnused ==
    /\ osenv = <<>>
    /\ file = AbsentFile(TRUE)
    /\ constructed = FALSE
    /\ config = PyNone
    /\ environment = s_empty
    /\ last = Step("start", s_empty, NotSupplied)
    /\ result = PyNone
    /\ raised = NoException
    /\ changes = 0

InitBrowser ==
    /\ ResolverUnused
    /\ BrowserUnused

\* browser = BrowserAutomation(browser_type, headless): the name keeps the object it had when
\* the constructor raises
Construct(browser_type, headless, fault) ==
    /\ Len(drivers) < MaxDrivers
    /\ LET made == BrowserAutomation(drivers, browser_type, headless, fault)
       IN  /\ drivers' = made.drivers
           /\ wrapper' = IF made.raised = NoException THEN made.self ELSE wrapper
           /\ wcall' = WrapperCall("__init__", browser_type, headless, 0, 0, made.raised,
                                   IF made.raised = NoException THEN "self" ELSE "nothing")
    /\ UNCHANGED <<vars, run>>

\* browser.close()
Close(fault) ==
    /\ wrapper.exists
    /\ drivers[wrapper.driver].quits < MaxQuits
    /\ LET closed == close(drivers, wrapper, fault)
       IN  /\ drivers' = closed.drivers
           /\ wcall' = WrapperCall("close", <<>>, FALSE, 0, 0, closed.raised, "nothing")
    /\ UNCHANGED <<vars, wrapper, run>>

Called(op, timeout, delay, outcome) ==
    /\ wcall' = WrapperCall(op, <<>>, FALSE, timeout, delay, outcome.raised, outcome.returned)
    /\ UNCHANGED <<vars, drivers, wrapper, run>>

\* browser.find_element(by, value, timeout)
FindElement(timeout, delay) ==
    /\ wrapper.exists
    /\ Called("find_element", timeout, delay, find_element(drivers, wrapper, timeout, delay))

\* browser.click_element(by, value, timeout)
ClickElement(timeout, delay, fault) ==
    /\ wrapper.exists
    /\ Called("click_element", timeout, delay,
              click_element(drivers, wrapper, timeout, delay, fault))

\* browser.input_text(by, value, text, timeout)
InputText(timeout, delay, fault) ==
    /\ wrapper.exists
    /\ Called("input_text", timeout, delay, input_text(drivers, wrapper, timeout, delay, fault))

\* browser.take_screenshot(filename)
TakeScreenshot(fault) ==
    /\ wrapper.exists
    /\ Called("take_screenshot", 0, 0, take_screenshot(drivers, wrapper, fault))

\* GoogleHomePage(browser).accept_cookies()
AcceptCookies(delay, fault) ==
    /\ wrapper.exists
    /\ Called("accept_cookies", CookieTimeout, delay,
              accept_cookies(drivers, wrapper, delay, fault))

NextBrowser ==
    \/ \E browser_type \in BrowserKinds, headless \in BOOLEAN, fault \in ConstructorFaults :
           Construct(browser_type, headless, fault)
    \/ \E fault \in BOOLEAN : Close(fault)
    \/ \E timeout \in Timeouts, delay \in Delays : FindElement(timeout, delay)
    \/ \E timeout \in Timeouts, delay \in Delays, fault \in ElementFaults :
           ClickElement(timeout, delay, fault)
    \/ \E timeout \in Timeouts, delay \in Delays, fault \in ElementFaults :
           InputText(timeout, delay, fault)
    \/ \E fault \in BOOLEAN : TakeScreenshot(fault)
    \/ \E delay \in Delays, fault \in ElementFaults : AcceptCookies(delay, fault)

SpecBrowser == InitBrowser /\ [][NextBrowser]_allvars

----------------------------------------------------------------------------
(* Claims about the wrapper and the page object *)

UnsupportedKinds == {s_opera, s_OPERA, s_empty}
SupportedSpellings == {s_chrome, s_Chrome, s_firefox, s_FIREFOX, s_edge, s_eDGE,
                       s_safari, s_Safari}

\* C11: a constructor call with a kind that is, lower-cased, none of chrome, firefox, edge
\* and safari raises the unsupported-browser error (ValueError) to the caller, who gets no
\* object, and creates no driver handle; a call with one of the four kinds in any letter case
\* never raises that error.
C11_UnsupportedKind ==
    [][wcall'.op = "__init__" =>
          /\ wcall'.arg \in UnsupportedKinds =>
                 /\ wcall'.raised = "ValueError"
                 /\ wcall'.returned = "nothing"
                 /\ wrapper' = wrapper
                 /\ drivers' = drivers
          /\ wcall'.arg \in SupportedSpellings => wcall'.raised # "ValueError"]_allvars

C11_Witness ==
    /\ wcall.op = "__init__"
    /\ wcall.arg = s_FIREFOX
    /\ wcall.raised = NoException
    /\ wrapper.exists /\ wrapper.browser_type = s_firefox
    /\ drivers[wrapper.driver].live

\* C12: close() releases the handle the wrapper holds, and a close() after an earlier close()
\* on the same wrapper performs no release on the driver and raises nothing; so over any
\* sequence of calls no handle is released (quit) more than once, and no close() that finds
\* the handle already released raises.
C12_ReleasedOnce ==
    /\ \A handle \in DOMAIN drivers : drivers[handle].quits <= 1
    /\ wcall.op = "close" /\ drivers[wrapper.driver].quits > 1 => wcall.raised = NoException

\* C16: accept_cookies() never raises and returns the page object it was called on, whether
\* the consent button becomes clickable within its 5 seconds or the click fails for any
\* reason; the same wait running out in a direct find_element, click_element or input_text
\* call on a live session raises TimeoutException to the caller.
C16_CookiesTolerated ==
    /\ wcall.op = "accept_cookies" =>
           /\ wcall.raised = NoException
           /\ wcall.returned = "self"
    /\ /\ wcall.op \in {"find_element", "click_element", "input_text"}
       /\ drivers[wrapper.driver].live
       /\ wcall.delay > wcall.timeout
       => /\ wcall.raised = "TimeoutException"
          /\ wcall.returned = "nothing"

C16_Witness ==
    /\ wcall.op = "accept_cookies"
    /\ wcall.timeout = CookieTimeout
    /\ wcall.delay > CookieTimeout
    /\ drivers[wrapper.driver].live
    /\ wcall.returned = "self"

\* C17: a constructor call that raises, at whatever step, leaves no driver handle live: a
\* handle created before the failing step has been released when the exception reaches the
\* caller.
C17_NoHandleLeftLive ==
    [][wcall'.op = "__init__" /\ wcall'.raised # NoException =>
          \A handle \in DOMAIN drivers' \ DOMAIN drivers : ~drivers'[handle].live]_allvars

----------------------------------------------------------------------------
(* The test fixtures (src/tests/conftest.py) under the test runner *)

s_BROWSER == <<"B","R","O","W","S","E","R">>
s_HEADLESS == <<"H","E","A","D","L","E","S","S">>
s_True == <<"T","r","u","e">>
s_TRUE == <<"T","R","U","E">>
s_yes == <<"y","e","s">>

MaxTests == 2

\* browser_type as the browser fixture works it out from --browser and BROWSER
fixture_browser_type(env, browser_option) ==
    LET browser_env == lower(environ_get(env, s_BROWSER, s_empty))
    IN  IF browser_env # s_empty THEN browser_env ELSE browser_option

\* a fixture in which HEADLESS alone decides
fixture_headless_from_env(env, headless_option) ==
    lower(environ_get(env, s_HEADLESS, s_empty)) = s_true

\* headless as the browser fixture works it out from --headless and HEADLESS
fixture_headless(env, headless_option) ==
    LET headless_env == lower(environ_get(env, s_HEADLESS, s_empty)) = s_true
    IN  IF headless_env THEN TRUE ELSE headless_option

BrowserOptions == {s_chrome, s_FIREFOX, s_opera}
BrowserValues == {s_empty, s_eDGE, s_safari}
HeadlessValues == {s_empty, s_true, s_TRUE, s_True, s_false, s_yes}
FixtureEnvirons ==
    UNION {{e \in [S -> BrowserValues \cup HeadlessValues] :
               /\ s_BROWSER \in S => e[s_BROWSER] \in BrowserValues
               /\ s_HEADLESS \in S => e[s_HEADLESS] \in HeadlessValues} :
           S \in SUBSET {s_BROWSER, s_HEADLESS}}

InitFixture ==
    /\ osenv \in FixtureEnvirons
    /\ file = AbsentFile(TRUE)
    /\ constructed = FALSE
    /\ config = PyNone
    /\ environment = s_empty
    /\ last = Step("start", s_empty, NotSupplied)
    /\ result = PyNone
    /\ raised = NoException
    /\ changes = 0
    /\ drivers = <<>>
    /\ wrapper = NoWrapper
    /\ wcall = NoCall
    /\ \E browser_option \in BrowserOptions, headless_option \in BOOLEAN :
           run = TestRun(browser_option, headless_option)

\* the runner takes up the next test, which asks for the browser fixture or does not
StartTest(uses_browser) ==
    /\ run.phase = "idle"
    /\ run.test < MaxTests
    /\ run' = [TestRun(run.browser_option, run.headless_option) EXCEPT
                   !.test = run.test + 1, !.uses_browser = uses_browser, !.phase = "setup"]
    /\ wrapper' = NoWrapper
    /\ wcall' = NoCall
    /\ UNCHANGED <<vars, drivers>>

\* the setup phase: the browser fixture up to its yield, for a test that asks for it
Setup(fault) ==
    /\ run.phase = "setup"
    /\ IF run.uses_browser
       THEN LET browser_type == fixture_browser_type(osenv, run.browser_option)
                headless == fixture_headless(osenv, run.headless_option)
                browser_instance == BrowserAutomation(drivers, browser_type, headless, fault)
                created == browser_instance.raised = NoException
            IN  /\ drivers' = browser_instance.drivers
                /\ wrapper' = browser_instance.self
                /\ wcall' = WrapperCall("__init__", browser_type, headless, 0, 0,
                                        browser_instance.raised,
                                        IF created THEN "self" ELSE "nothing")
                /\ run' = [run EXCEPT !.browser_type = browser_type,
                                      !.headless = headless,
                                      !.funcargs_browser = created,
                                      !.outcome.setup = IF created THEN "passed" ELSE "failed",
                                      !.phase = "setup_report"]
       ELSE /\ fault = "none"
            /\ run' = [run EXCEPT !.outcome.setup = "passed", !.phase = "setup_report"]
            /\ UNCHANGED <<drivers, wrapper, wcall>>
    /\ UNCHANGED vars

\* the call phase: the body of the test passes or fails
Call(passes) ==
    /\ run.phase = "call"
    /\ run' = [run EXCEPT !.outcome.call = IF passes THEN "passed" ELSE "failed",
                          !.phase = "call_report"]
    /\ UNCHANGED <<vars, drivers, wrapper, wcall>>

\* a teardown that closes the browser of a test that passed only
Teardown_after_pass(fault) ==
    /\ run.phase = "teardown"
    /\ IF run.funcargs_browser /\ run.outcome.call = "passed"
       THEN LET closed == close(drivers, wrapper, fault)
            IN  /\ drivers' = closed.drivers
                /\ wcall' = WrapperCall("close", <<>>, FALSE, 0, 0, closed.raised, "nothing")
                /\ run' = [run EXCEPT
                               !.outcome.teardown =
                                   IF closed.raised = NoException THEN "passed" ELSE "failed",
                               !.phase = "teardown_report"]
       ELSE /\ fault = FALSE
            /\ run' = [run EXCEPT !.outcome.teardown = "passed", !.phase = "teardown_report"]
            /\ UNCHANGED <<drivers, wcall>>
    /\ UNCHANGED <<vars, wrapper>>

\* the teardown phase: the browser fixture after its yield, when its setup got that far
Teardown(fault) ==
    /\ run.phase = "teardown"
    /\ IF run.funcargs_browser
       THEN LET closed == close(drivers, wrapper, fault)
            IN  /\ drivers' = closed.drivers
                /\ wcall' = WrapperCall("close", <<>>, FALSE, 0, 0, closed.raised, "nothing")
                /\ run' = [run EXCEPT
                               !.outcome.teardown =
                                   IF closed.raised = NoException THEN "passed" ELSE "failed",
                               !.phase = "teardown_report"]
       ELSE /\ fault = FALSE
            /\ run' = [run EXCEPT !.outcome.teardown = "passed", !.phase = "teardown_report"]
            /\ UNCHANGED <<drivers, wcall>>
    /\ UNCHANGED <<vars, wrapper>>

\* the phase reported on and the phase the runner goes to after the report
When(phase) ==
    IF phase = "setup_report" THEN "setup"
    ELSE IF phase = "call_report" THEN "call"
    ELSE "teardown"

PhaseAfter(phase, outcome) ==
    IF phase = "setup_report" THEN (IF outcome.setup = "passed" THEN "call" ELSE "teardown")
    ELSE IF phase = "call_report" THEN "teardown"
    ELSE "idle"

\* a report hook that takes the screenshot after any failed phase
pytest_runtest_makereport_any_phase(fault) ==
    /\ run.phase \in {"setup_report", "call_report", "teardown_report"}
    /\ LET when == When(run.phase)
           failed == run.outcome[when] = "failed"
           browser_fixture == IF run.funcargs_browser THEN wrapper ELSE NoWrapper
       IN  IF failed /\ browser_fixture.exists
           THEN LET shot == take_screenshot(drivers, browser_fixture, fault)
                IN  /\ wcall' = WrapperCall("take_screenshot", <<>>, FALSE, 0, 0,
                                            shot.raised, shot.returned)
                    /\ run' = [run EXCEPT
                                   !.screenshot =
                                       IF shot.raised = NoException THEN "saved" ELSE "error",
                                   !.report[when] = run.outcome[when],
                                   !.phase = PhaseAfter(run.phase, run.outcome)]
           ELSE /\ fault = FALSE
                /\ run' = [run EXCEPT !.report[when] = run.outcome[when],
                                      !.phase = PhaseAfter(run.phase, run.outcome)]
                /\ UNCHANGED wcall
    /\ UNCHANGED <<vars, drivers, wrapper>>

\* the report hook, run after each phase; fault says whether taking the screenshot raises
pytest_runtest_makereport(fault) ==
    /\ run.phase \in {"setup_report", "call_report", "teardown_report"}
    /\ LET when == When(run.phase)
           failed == run.outcome[when] = "failed"
           browser_fixture == IF run.funcargs_browser THEN wrapper ELSE NoWrapper
       IN  IF when = "call" /\ failed /\ browser_fixture.exists
           THEN LET shot == take_screenshot(drivers, browser_fixture, fault)
                IN  /\ wcall' = WrapperCall("take_screenshot", <<>>, FALSE, 0, 0,
                                            shot.raised, shot.returned)
                    /\ run' = [run EXCEPT
                                   !.screenshot =
                                       IF shot.raised = NoException THEN "saved" ELSE "error",
                                   !.report[when] = run.outcome[when],
                                   !.phase = PhaseAfter(run.phase, run.outcome)]
           ELSE /\ fault = FALSE
                /\ run' = [run EXCEPT !.report[when] = run.outcome[when],
                                      !.phase = PhaseAfter(run.phase, run.outcome)]
                /\ UNCHANGED wcall
    /\ UNCHANGED <<vars, drivers, wrapper>>

NextFixture ==
    \/ \E uses_browser \in BOOLEAN : StartTest(uses_browser)
    \/ \E fault \in ConstructorFaults : Setup(fault)
    \/ \E passes \in BOOLEAN : Call(passes)
    \/ \E fault \in BOOLEAN : Teardown(fault)
    \/ \E fault \in BOOLEAN : pytest_runtest_makereport(fault)

SpecFixture == InitFixture /\ [][NextFixture]_allvars

----------------------------------------------------------------------------
(* Claims about the test fixtures *)

\* a handle the fixture got inside a wrapper: the constructor ran to its last statement
FixtureOwned(handle) == drivers[handle].page_load_timeout = PageLoadTimeout

LiveOwned == {handle \in DOMAIN drivers : FixtureOwned(handle) /\ drivers[handle].live}

\* C13: every test that uses the browser fixture gets a wrapper constructed for it, with a
\* handle that did not exist before; the wrapper is closed once the test's body has ended,
\* whether it passed or failed, and before the next test begins; so at most one handle
\* owned by the fixture is live at any time.
C13_OneBrowserPerTest ==
    /\ [](/\ Cardinality(LiveOwned) <= 1
          /\ run.phase \in {"idle", "setup"} => LiveOwned = {}
          /\ run.phase = "teardown_report" /\ run.funcargs_browser =>
                 /\ run.outcome.call \in {"passed", "failed"}
                 /\ ~drivers[wrapper.driver].live
          /\ run.phase \in {"call", "call_report"} =>
                 (run.uses_browser <=> wrapper.exists /\ drivers[wrapper.driver].live))
    /\ [][run.phase = "setup" /\ run'.funcargs_browser =>
              /\ wrapper'.driver \notin DOMAIN drivers
              /\ drivers'[wrapper'.driver].live
              /\ drivers'[wrapper'.driver].quits = 0]_allvars

C13_Witness ==
    /\ run.test = 2
    /\ run.phase = "setup"
    /\ Len(drivers) = 1
    /\ FixtureOwned(1)
    /\ drivers[1].quits = 1
    /\ wcall.op = "none"

\* C14: the report hook asks the test's wrapper for a screenshot exactly when the call phase
\* of a test that got the browser fixture is reported failed, and at that time the handle is
\* live and not yet quit; it asks for none after a call phase that passed, after a failed
\* setup or teardown, or for a test without the fixture; and whether or not the screenshot
\* raises, the report carries the outcome of the phase and the hook raises nothing.
C14_ScreenshotOnFailure ==
    /\ [](run.screenshot # "none" =>
              /\ run.outcome.call = "failed"
              /\ run.uses_browser
              /\ run.outcome.setup = "passed")
    /\ [][/\ run'.screenshot # "none" /\ run.screenshot = "none" =>
                 /\ run.phase = "call_report"
                 /\ drivers[wrapper.driver].live
                 /\ drivers[wrapper.driver].quits = 0
          /\ run.phase = "call_report" /\ run.outcome.call = "failed" /\ run.uses_browser =>
                 run'.screenshot # "none"
          /\ run.phase \in {"setup_report", "call_report", "teardown_report"} =>
                 /\ run'.report[When(run.phase)] = run.outcome[When(run.phase)]
                 /\ run'.outcome = run.outcome
                 /\ run'.hook_raised = NoException
                 /\ run'.phase # run.phase]_allvars

C14_Witness ==
    /\ run.phase = "teardown"
    /\ run.screenshot = "error"
    /\ run.report.call = "failed"
    /\ drivers[wrapper.driver].live

BrowserFromEnviron ==
    IF s_BROWSER \notin DOMAIN osenv \/ osenv[s_BROWSER] = <<>> THEN <<>>
    ELSE IF osenv[s_BROWSER] = <<"e","D","G","E">> THEN <<"e","d","g","e">>
    ELSE osenv[s_BROWSER]

HeadlessFromEnviron ==
    /\ s_HEADLESS \in DOMAIN osenv
    /\ osenv[s_HEADLESS] \in {<<"t","r","u","e">>, <<"T","R","U","E">>, <<"T","r","u","e">>}

\* C15: the fixture constructs the browser of the kind named by BROWSER, lower-cased, when
\* that variable is set and not empty, and of the kind given by --browser otherwise; it asks
\* for headless mode exactly when --headless was given or HEADLESS is "true" in some letter
\* case.
C15_FixtureOptions ==
    run.uses_browser /\ run.phase # "setup" /\ run.phase # "idle" =>
        /\ run.browser_type =
               IF BrowserFromEnviron # <<>> THEN BrowserFromEnviron ELSE run.browser_option
        /\ run.headless <=> (run.headless_option \/ HeadlessFromEnviron)
        /\ run.phase = "setup_report" =>
               /\ wcall.op = "__init__"
               /\ wcall.arg = run.browser_type
               /\ wcall.headless = run.headless

C15_Witness ==
    /\ run.phase = "setup_report"
    /\ run.headless_option
    /\ s_HEADLESS \in DOMAIN osenv /\ osenv[s_HEADLESS] = s_false
    /\ s_BROWSER \in DOMAIN osenv /\ osenv[s_BROWSER] = s_eDGE
    /\ run.browser_option = s_FIREFOX
    /\ run.browser_type = s_edge
    /\ run.headless
    /\ wrapper.exists

====
